---------------------------- MODULE Spec2Model ----------------------------
(***************************************************************************)
(* A model of mhtml_extractor.py: the class MHTMLToSingleHTML, which turns *)
(* one MHTML archive into a single HTML text with its resources inlined as *)
(* data URIs.                                                              *)
(*                                                                         *)
(* Text (Python str) is a sequence of Unicode code points, bytes (Python   *)
(* bytes) a sequence of numbers in 0..255.  Literals are written with T,   *)
(* which maps a tuple of one-character strings to its code points.         *)
(***************************************************************************)
EXTENDS Integers, Sequences, FiniteSets, TLC

\* ------------------------------------------------------------- characters

\* Python's None; no text and no byte string equals it (code points are >= 0).
None == <<-1>>

\* The printable ASCII characters, code points 32..126 in order (the backslash
\* and the backtick are spelled out: no literal of the model uses them).
AsciiPrintable ==
    << " ", "!", "\"", "#", "$", "%", "&", "'", "(", ")", "*", "+",
       ",", "-", ".", "/", "0", "1", "2", "3", "4", "5", "6", "7",
       "8", "9", ":", ";", "<", "=", ">", "?", "@", "A", "B", "C",
       "D", "E", "F", "G", "H", "I", "J", "K", "L", "M", "N", "O",
       "P", "Q", "R", "S", "T", "U", "V", "W", "X", "Y", "Z", "[",
       "backslash", "]", "^", "_", "backtick", "a", "b", "c", "d", "e", "f", "g",
       "h", "i", "j", "k", "l", "m", "n", "o", "p", "q", "r", "s",
       "t", "u", "v", "w", "x", "y", "z", "{", "|", "}", "~" >>

\* The code point of a printable ASCII character, "\n" or "\r".
Ord(c) ==
    IF c = "\n" THEN 10
    ELSE IF c = "\r" THEN 13
    ELSE 31 + (CHOOSE n \in 1..Len(AsciiPrintable) : AsciiPrintable[n] = c)

\* The text of a literal written as a tuple of characters.
T(s) == [i \in 1..Len(s) |-> Ord(s[i])]

\* str.isspace of one code point: the characters str.strip() removes.
IsSpace(c) ==
    \/ c \in 9..13
    \/ c \in 28..32
    \/ c \in {133, 160, 5760, 8232, 8233, 8239, 8287, 12288}
    \/ c \in 8192..8202

\* str.lower of one code point, on the range the comparisons of the program
\* can tell apart (no non-ASCII character lowers to a letter of "base64" or
\* "quoted-printable").
LowerChar(c) == IF c \in 65..90 THEN c + 32 ELSE c

Lower(s) == [i \in 1..Len(s) |-> LowerChar(s[i])]

\* The case folding of re.IGNORECASE on a str pattern: ASCII letters, and the
\* two non-ASCII characters that match an ASCII letter (U+017F long s and
\* U+212A Kelvin sign).
FoldChar(c) ==
    IF c = 383 THEN 115 ELSE IF c = 8490 THEN 107 ELSE LowerChar(c)

Fold(s) == [i \in 1..Len(s) |-> FoldChar(s[i])]

\* ------------------------------------------------------------ str methods

\* str.find(sub, start): the least index >= i at which sub occurs in s, 0 when
\* there is none (indices are 1-based; Python answers -1).
Find(s, sub, i) ==
    LET at == {j \in i..(Len(s) - Len(sub) + 1) :
                 \A k \in 1..Len(sub) : s[j + k - 1] = sub[k]}
    IN  IF at = {} THEN 0 ELSE CHOOSE j \in at : \A k \in at : j <= k

StartsWith(s, prefix) ==
    Len(prefix) <= Len(s) /\ SubSeq(s, 1, Len(prefix)) = prefix

\* str.split(sep) for a non-empty sep: the segments between the leftmost
\* non-overlapping occurrences of sep, in order.
RECURSIVE Split(_, _)
Split(s, sep) ==
    LET i == Find(s, sep, 1)
    IN  IF i = 0 THEN <<s>>
        ELSE <<SubSeq(s, 1, i - 1)>> \o Split(SubSeq(s, i + Len(sep), Len(s)), sep)

\* str.replace(old, new) for an empty old: new before every character and at
\* the end.
RECURSIVE Interleave(_, _)
Interleave(s, new) ==
    IF s = <<>> THEN new ELSE new \o <<Head(s)>> \o Interleave(Tail(s), new)

\* str.replace(old, new): every leftmost non-overlapping occurrence of old in s
\* replaced by new; the text put in is not scanned again.
RECURSIVE ReplaceFrom(_, _, _)
ReplaceFrom(s, old, new) ==
    LET i == Find(s, old, 1)
    IN  IF i = 0 THEN s
        ELSE SubSeq(s, 1, i - 1) \o new
             \o ReplaceFrom(SubSeq(s, i + Len(old), Len(s)), old, new)

Replace(s, old, new) ==
    IF old = <<>> THEN Interleave(s, new) ELSE ReplaceFrom(s, old, new)

\* str.lstrip(chars) and the two halves of str.strip().
RECURSIVE LStripChars(_, _)
LStripChars(s, chars) ==
    IF s # <<>> /\ Head(s) \in chars THEN LStripChars(Tail(s), chars) ELSE s

RECURSIVE LStrip(_)
LStrip(s) == IF s # <<>> /\ IsSpace(Head(s)) THEN LStrip(Tail(s)) ELSE s

RECURSIVE RStrip(_)
RStrip(s) ==
    IF s # <<>> /\ IsSpace(s[Len(s)]) THEN RStrip(SubSeq(s, 1, Len(s) - 1)) ELSE s

Strip(s) == RStrip(LStrip(s))

\* A partition that answers <<"", "", s>> when sep does not occur: the text is
\* all body, none of it header.
PartitionBodyWhenMissing(s, sep) ==
    LET i == Find(s, sep, 1)
    IN  IF i = 0 THEN <<<<>>, <<>>, s>>
        ELSE <<SubSeq(s, 1, i - 1), sep, SubSeq(s, i + Len(sep), Len(s))>>

\* str.partition(sep): <<before, sep, after>> at the first occurrence of sep,
\* <<s, "", "">> when sep does not occur.
Partition(s, sep) ==
    LET i == Find(s, sep, 1)
    IN  IF i = 0 THEN <<s, <<>>, <<>>>>
        ELSE <<SubSeq(s, 1, i - 1), sep, SubSeq(s, i + Len(sep), Len(s))>>

\* ----------------------------------------------------------------- codecs

\* str.encode("utf-8") of one code point.
UTF8EncodeChar(c) ==
    IF c < 128 THEN <<c>>
    ELSE IF c < 2048 THEN <<192 + (c \div 64), 128 + (c % 64)>>
    ELSE IF c < 65536
         THEN <<224 + (c \div 4096), 128 + ((c \div 64) % 64), 128 + (c % 64)>>
    ELSE <<240 + (c \div 262144), 128 + ((c \div 4096) % 64),
           128 + ((c \div 64) % 64), 128 + (c % 64)>>

\* str.encode("utf-8"): text to bytes.
RECURSIVE UTF8Encode(_)
UTF8Encode(s) ==
    IF s = <<>> THEN <<>> ELSE UTF8EncodeChar(Head(s)) \o UTF8Encode(Tail(s))

\* The length of the UTF-8 sequence a lead byte opens, 0 for a byte that opens
\* none (a continuation byte, an overlong lead 0xC0/0xC1, 0xF5 and above).
UTF8SeqLen(b1) ==
    IF b1 < 128 THEN 1
    ELSE IF b1 \in 194..223 THEN 2
    ELSE IF b1 \in 224..239 THEN 3
    ELSE IF b1 \in 240..244 THEN 4
    ELSE 0

\* Whether b opens with one well-formed UTF-8 sequence of n bytes (no overlong
\* form, no surrogate, nothing above U+10FFFF).
UTF8WellFormed(b, n) ==
    /\ n >= 1
    /\ Len(b) >= n
    /\ n >= 2 =>
         /\ b[2] >= (IF b[1] = 224 THEN 160 ELSE IF b[1] = 240 THEN 144 ELSE 128)
         /\ b[2] <= (IF b[1] = 237 THEN 159 ELSE IF b[1] = 244 THEN 143 ELSE 191)
    /\ \A k \in 3..n : b[k] \in 128..191

UTF8CodePoint(b, n) ==
    IF n = 1 THEN b[1]
    ELSE IF n = 2 THEN ((b[1] % 32) * 64) + (b[2] % 64)
    ELSE IF n = 3 THEN ((b[1] % 16) * 4096) + ((b[2] % 64) * 64) + (b[3] % 64)
    ELSE ((b[1] % 8) * 262144) + ((b[2] % 64) * 4096) + ((b[3] % 64) * 64)
         + (b[4] % 64)

\* bytes.decode("utf-8"): the text, or None where Python raises
\* UnicodeDecodeError.
RECURSIVE UTF8Decode(_)
UTF8Decode(b) ==
    IF b = <<>> THEN <<>>
    ELSE LET n == UTF8SeqLen(b[1])
         IN  IF ~UTF8WellFormed(b, n) THEN None
             ELSE LET rest == UTF8Decode(SubSeq(b, n + 1, Len(b)))
                  IN  IF rest = None THEN None
                      ELSE <<UTF8CodePoint(b, n)>> \o rest

\* bytes.decode("latin-1"): every byte is the code point of its character.
Latin1Decode(b) == b

\* The base64 alphabet: the character of a 6-bit value, and the value of a
\* character (64 for a character outside the alphabet, as binascii's table).
B64Char(v) ==
    IF v < 26 THEN 65 + v
    ELSE IF v < 52 THEN 97 + (v - 26)
    ELSE IF v < 62 THEN 48 + (v - 52)
    ELSE IF v = 62 THEN 43
    ELSE 47

B64Value(c) ==
    IF c \in 65..90 THEN c - 65
    ELSE IF c \in 97..122 THEN (c - 97) + 26
    ELSE IF c \in 48..57 THEN (c - 48) + 52
    ELSE IF c = 43 THEN 62
    ELSE IF c = 47 THEN 63
    ELSE 64

\* base64.b64encode: bytes to the bytes of the base64 text, "=" padded.
RECURSIVE B64Encode(_)
B64Encode(b) ==
    IF b = <<>> THEN <<>>
    ELSE IF Len(b) = 1
         THEN <<B64Char(b[1] \div 4), B64Char((b[1] % 4) * 16), 61, 61>>
    ELSE IF Len(b) = 2
         THEN <<B64Char(b[1] \div 4), B64Char(((b[1] % 4) * 16) + (b[2] \div 16)),
                B64Char((b[2] % 16) * 4), 61>>
    ELSE <<B64Char(b[1] \div 4), B64Char(((b[1] % 4) * 16) + (b[2] \div 16)),
           B64Char(((b[2] % 16) * 4) + (b[3] \div 64)), B64Char(b[3] % 64)>>
         \o B64Encode(SubSeq(b, 4, Len(b)))

IsAscii(s) == \A i \in 1..Len(s) : s[i] < 128

\* binascii.a2b_base64 in its default, non-strict mode, from character i on:
\* quad is the position in the current group of four, left the bits carried
\* over, pads the "=" seen since the last data character.  A character outside
\* the alphabet is skipped; enough "=" after two or three data characters of a
\* group ends the decoding; an unfinished group at the end raises (None).
RECURSIVE A2BBase64(_, _, _, _, _)
A2BBase64(s, i, quad, left, pads) ==
    IF i > Len(s) THEN (IF quad # 0 THEN None ELSE <<>>)
    ELSE IF s[i] = 61
         THEN IF quad >= 2 /\ quad + pads + 1 >= 4 THEN <<>>
              ELSE A2BBase64(s, i + 1, quad, left,
                             IF quad >= 2 THEN pads + 1 ELSE pads)
    ELSE LET v == B64Value(s[i])
         IN  IF v = 64 THEN A2BBase64(s, i + 1, quad, left, pads)
             ELSE IF quad = 0 THEN A2BBase64(s, i + 1, 1, v, 0)
             ELSE LET byte == IF quad = 1 THEN (left * 4) + (v \div 16)
                              ELSE IF quad = 2 THEN (left * 16) + (v \div 4)
                              ELSE (left * 64) + v
                      carry == IF quad = 1 THEN v % 16
                               ELSE IF quad = 2 THEN v % 4
                               ELSE 0
                      rest == A2BBase64(s, i + 1, (quad + 1) % 4, carry, 0)
                  IN  IF rest = None THEN None ELSE <<byte>> \o rest

\* base64.b64decode(body) of a str: the bytes, or None where it raises
\* (ValueError for a non-ASCII character, binascii.Error for an unfinished
\* group).
B64Decode(body) ==
    IF ~IsAscii(body) THEN None ELSE A2BBase64(body, 1, 0, 0, 0)

IsHex(c) == c \in 48..57 \/ c \in 65..70 \/ c \in 97..102

HexVal(c) ==
    IF c \in 48..57 THEN c - 48 ELSE IF c \in 65..70 THEN c - 55 ELSE c - 87

\* The index after a soft line break whose first character (CR or LF) is at i.
RECURSIVE SkipToLF(_, _)
SkipToLF(s, i) ==
    IF i > Len(s) THEN i ELSE IF s[i] = 10 THEN i + 1 ELSE SkipToLF(s, i + 1)

\* binascii.a2b_qp(data, header=False) from character i on: "=XX" is the byte
\* XX, "=" before a line end is a soft break, "==" is one "=", a final "="
\* is dropped and any other "=" stands for itself.
RECURSIVE A2BQp(_, _)
A2BQp(s, i) ==
    IF i > Len(s) THEN <<>>
    ELSE IF s[i] # 61 THEN <<s[i]>> \o A2BQp(s, i + 1)
    ELSE IF i + 1 > Len(s) THEN <<>>
    ELSE IF s[i + 1] \in {10, 13} THEN A2BQp(s, SkipToLF(s, i + 1))
    ELSE IF s[i + 1] = 61 THEN <<61>> \o A2BQp(s, i + 2)
    ELSE IF i + 2 <= Len(s) /\ IsHex(s[i + 1]) /\ IsHex(s[i + 2])
         THEN <<(HexVal(s[i + 1]) * 16) + HexVal(s[i + 2])>> \o A2BQp(s, i + 3)
    ELSE <<61>> \o A2BQp(s, i + 1)

\* quopri.decodestring(body) of a str: the bytes, or None where it raises
\* (ValueError for a non-ASCII character).
QpDecode(body) == IF ~IsAscii(body) THEN None ELSE A2BQp(body, 1)

\* ------------------------------------------------------- regular expressions

\* The least index >= i at which lit occurs in t followed by a character that
\* is none of stops, 0 when there is none.
RECURSIVE FindRun(_, _, _, _)
FindRun(t, l, stops, i) ==
    LET j == Find(t, l, i)
    IN  IF j = 0 THEN 0
        ELSE IF j + Len(l) <= Len(t) /\ t[j + Len(l)] \notin stops THEN j
        ELSE FindRun(t, l, stops, j + 1)

\* The index of the last character of the run, from i on, of characters that
\* are none of stops (i - 1 when there is no such character at i).
RunEnd(t, stops, i) ==
    LET at == {j \in i..Len(t) : t[j] \in stops}
    IN  IF at = {} THEN Len(t) ELSE (CHOOSE j \in at : \A k \in at : j <= k) - 1

\* re.search(lit + "([^stops]+)", text, flags): group 1 of the leftmost match,
\* the longest run it can take, or None without a match.  fold is
\* re.IGNORECASE.
SearchRun(text, lit, stops, fold) ==
    LET t == IF fold THEN Fold(text) ELSE text
        l == IF fold THEN Fold(lit) ELSE lit
        j == FindRun(t, l, stops, 1)
    IN  IF j = 0 THEN None
        ELSE SubSeq(text, j + Len(l), RunEnd(text, stops, j + Len(l)))

\* The least index >= i at which lit occurs in t followed by at least one
\* character other than close and then, somewhere, by close; 0 when none.
RECURSIVE FindDelimited(_, _, _, _)
FindDelimited(t, l, close, i) ==
    LET j == Find(t, l, i)
    IN  IF j = 0 THEN 0
        ELSE IF /\ j + Len(l) <= Len(t)
                /\ t[j + Len(l)] # close
                /\ RunEnd(t, {close}, j + Len(l)) < Len(t)
             THEN j
        ELSE FindDelimited(t, l, close, j + 1)

\* re.search(lit + "([^c]+)c", text, flags) for a closing character c: group 1
\* of the leftmost match, which ends before the first c, or None.
SearchDelimited(text, lit, close, fold) ==
    LET t == IF fold THEN Fold(text) ELSE text
        l == IF fold THEN Fold(lit) ELSE lit
        j == FindDelimited(t, l, close, 1)
    IN  IF j = 0 THEN None
        ELSE SubSeq(text, j + Len(l), RunEnd(text, {close}, j + Len(l)))

\* ------------------------------------------------------------ the literals

\* "\n\n", the separator of a header block and a body.
BlankLine ==
    T(<<"\n", "\n">>)

CRLF ==
    T(<<"\r", "\n">>)

LF ==
    T(<<"\n">>)

\* The literal part of the pattern of _parse_boundary.
BoundaryParam ==
    T(<<"b", "o", "u", "n", "d", "a", "r", "y", "=", "\"">>)

Dashes ==
    T(<<"-", "-">>)

\* The literal parts of the four header patterns of _process_part.
ContentTypeHdr ==
    T(<<"C", "o", "n", "t", "e", "n", "t", "-", "T", "y", "p", "e", ":",
        " ">>)

EncodingHdr ==
    T(<<"C", "o", "n", "t", "e", "n", "t", "-", "T", "r", "a", "n", "s",
        "f", "e", "r", "-", "E", "n", "c", "o", "d", "i", "n", "g", ":",
        " ">>)

LocationHdr ==
    T(<<"C", "o", "n", "t", "e", "n", "t", "-", "L", "o", "c", "a", "t",
        "i", "o", "n", ":", " ">>)

ContentIdHdr ==
    T(<<"C", "o", "n", "t", "e", "n", "t", "-", "I", "D", ":", " ", "<">>)

\* The defaults of a missing Content-Type and Content-Transfer-Encoding.
OctetStream ==
    T(<<"a", "p", "p", "l", "i", "c", "a", "t", "i", "o", "n", "/", "o",
        "c", "t", "e", "t", "-", "s", "t", "r", "e", "a", "m">>)

SevenBit ==
    T(<<"7", "b", "i", "t">>)

Base64Name ==
    T(<<"b", "a", "s", "e", "6", "4">>)

QuotedPrintableName ==
    T(<<"q", "u", "o", "t", "e", "d", "-", "p", "r", "i", "n", "t", "a",
        "b", "l", "e">>)

TextHtml ==
    T(<<"t", "e", "x", "t", "/", "h", "t", "m", "l">>)

CidScheme ==
    T(<<"c", "i", "d", ":">>)

DataScheme ==
    T(<<"d", "a", "t", "a", ":">>)

Base64Mark ==
    T(<<";", "b", "a", "s", "e", "6", "4", ",">>)

\* -------------------------------------------------- the converter's methods

\* What the try block of _decode_body computes: the decoded bytes, or None
\* where the decoder raises.
DecodeAttempt(encoding, body) ==
    IF encoding = Base64Name THEN B64Decode(body)
    ELSE IF encoding = QuotedPrintableName THEN QpDecode(body)
    ELSE UTF8Encode(body)

\* _decode_body with "return b''" in its except branch: the body is dropped
\* when the decoder raises.
_decode_body_drops_body(encoding, body) ==
    LET attempt == DecodeAttempt(encoding, body)
    IN  IF attempt = None THEN <<>> ELSE attempt

\* _decode_body: the decoded bytes, and the UTF-8 bytes of the body as it
\* stands when the decoder raised.
_decode_body(encoding, body) ==
    LET attempt == DecodeAttempt(encoding, body)
    IN  IF attempt = None THEN UTF8Encode(body) ELSE attempt

\* _parse_boundary: the value of the first boundary="..." of the header block,
\* or None.
_parse_boundary(headers) == SearchDelimited(headers, BoundaryParam, 34, FALSE)

\* _make_data_uri: "data:<content_type>;base64,<base64 of the bytes>".
_make_data_uri(content_type, binary_data) ==
    DataScheme \o content_type \o Base64Mark \o UTF8Decode(B64Encode(binary_data))

\* Inner as parts[1:] would have it: the last segment kept.
InnerKeepsLast(segments) ==
    IF Len(segments) <= 1 THEN <<>> ELSE SubSeq(segments, 2, Len(segments))

\* parts[1:-1]: a list without its first and its last element.
Inner(segments) ==
    IF Len(segments) <= 2 THEN <<>> ELSE SubSeq(segments, 2, Len(segments) - 1)

\* _extract_parts: the ValueError it raises ("" when it returns), the value
\* it leaves in self.boundary, given the one it found there, and the parts it
\* returns: the segments of the content between the occurrences of
\* "--" + boundary, without the first and the last.
_extract_parts(content, old_boundary) ==
    LET header_end == Find(content, BlankLine, 1)
        header_block == SubSeq(content, 1, header_end - 1)
        found == _parse_boundary(header_block)
    IN  IF header_end = 0
        THEN [error |-> "Invalid MHTML structure", boundary |-> old_boundary,
              parts |-> <<>>]
        ELSE IF found = None
        THEN [error |-> "No boundary found in MHTML headers", boundary |-> None,
              parts |-> <<>>]
        ELSE [error |-> "", boundary |-> found,
              parts |-> Inner(Split(content, Dashes \o found))]

\* The first two lines of _process_part: the part stripped.
Stripped(part) == LStripChars(Strip(part), {13, 10})

\* headers and body of _process_part: the two sides of the first blank line of
\* the stripped part, CRLF turned into LF.
HeadersOf(part) == Replace(Partition(Stripped(part), BlankLine)[1], CRLF, LF)

BodyOf(part) == Replace(Partition(Stripped(part), BlankLine)[3], CRLF, LF)

\* The four header lookups of _process_part.
ContentTypeOf(headers) ==
    LET m == SearchRun(headers, ContentTypeHdr, {10, 59}, TRUE)
    IN  IF m = None THEN OctetStream ELSE Strip(m)

EncodingOf(headers) ==
    LET m == SearchRun(headers, EncodingHdr, {10}, TRUE)
    IN  IF m = None THEN SevenBit ELSE Lower(Strip(m))

LocationOf(headers) ==
    LET m == SearchRun(headers, LocationHdr, {10}, TRUE)
    IN  IF m = None THEN None ELSE Strip(m)

CidOf(headers) ==
    LET m == SearchDelimited(headers, ContentIdHdr, 62, TRUE)
    IN  IF m = None THEN None ELSE CidScheme \o Strip(m)

\* The bytes decoded as Latin-1 whatever they are.
DecodeTextLatin1(decoded) == Latin1Decode(decoded)

\* decoded.decode("utf-8"), and decoded.decode("latin-1") where that raises.
DecodeText(decoded) ==
    IF UTF8Decode(decoded) = None THEN Latin1Decode(decoded) ELSE UTF8Decode(decoded)

\* url_to_data_uri is a dict: its entries in the order their keys were first
\* inserted.  d[key] = value keeps the place of a key that is there already.
Keys(d) == [i \in 1..Len(d) |-> d[i].key]

HasKey(d, key) == \E i \in 1..Len(d) : d[i].key = key

Lookup(d, key) == d[CHOOSE i \in 1..Len(d) : d[i].key = key].val

SetItem(d, key, value) ==
    IF HasKey(d, key)
    THEN [i \in 1..Len(d) |-> IF d[i].key = key THEN [key |-> key, val |-> value]
                                ELSE d[i]]
    ELSE Append(d, [key |-> key, val |-> value])

\* The assignment of lines 78-80, skipped without a Content-Location, and that
\* of lines 82-84, skipped without a Content-ID.
RegisterLocation(d, headers, data_uri) ==
    LET location == LocationOf(headers)
    IN  IF location = None THEN d ELSE SetItem(d, location, data_uri)

RegisterCid(d, headers, data_uri) ==
    LET cid == CidOf(headers)
    IN  IF cid = None THEN d ELSE SetItem(d, cid, data_uri)

\* _process_part without the test "self.main_html is None" of line 69: every
\* text/html part is stored as main_html.
_process_part_last_html_wins(part, html, dict) ==
    LET stripped == Stripped(part)
        halves == Partition(stripped, BlankLine)
        headers == Replace(halves[1], CRLF, LF)
        body == Replace(halves[3], CRLF, LF)
        content_type == ContentTypeOf(headers)
        encoding == EncodingOf(headers)
        attempt == DecodeAttempt(encoding, body)
        bytes == _decode_body(encoding, body)
        data_uri == _make_data_uri(content_type, bytes)
    IN  IF stripped = <<>>
        THEN [main_html |-> html, url_to_data_uri |-> dict, decoded |-> None,
              warned |-> FALSE]
        ELSE IF StartsWith(content_type, TextHtml)
        THEN [main_html |-> DecodeText(bytes), url_to_data_uri |-> dict,
              decoded |-> bytes, warned |-> attempt = None]
        ELSE [main_html |-> html,
              url_to_data_uri |->
                  RegisterCid(RegisterLocation(dict, headers, data_uri),
                              headers, data_uri),
              decoded |-> bytes, warned |-> attempt = None]

\* _process_part: the fields main_html and url_to_data_uri after the call, the
\* local decoded (None when the call returned before decoding) and whether a
\* warning was logged.
_process_part(part, html, dict) ==
    LET stripped == Stripped(part)
        halves == Partition(stripped, BlankLine)
        headers == Replace(halves[1], CRLF, LF)
        body == Replace(halves[3], CRLF, LF)
        content_type == ContentTypeOf(headers)
        encoding == EncodingOf(headers)
        attempt == DecodeAttempt(encoding, body)
        bytes == _decode_body(encoding, body)
        data_uri == _make_data_uri(content_type, bytes)
    IN  IF stripped = <<>>
        THEN [main_html |-> html, url_to_data_uri |-> dict, decoded |-> None,
              warned |-> FALSE]
        ELSE IF StartsWith(content_type, TextHtml) /\ html = None
        THEN [main_html |-> DecodeText(bytes), url_to_data_uri |-> dict,
              decoded |-> bytes, warned |-> attempt = None]
        ELSE [main_html |-> html,
              url_to_data_uri |->
                  RegisterCid(RegisterLocation(dict, headers, data_uri),
                              headers, data_uri),
              decoded |-> bytes, warned |-> attempt = None]

\* sorted(keys, key=len, reverse=True): longest first, keys of one length in
\* the order they have in keys (the sort is stable, also when reversed).
RECURSIVE ByLengthFrom(_, _)
ByLengthFrom(keys, n) ==
    IF n < 0 THEN <<>>
    ELSE SelectSeq(keys, LAMBDA k : Len(k) = n) \o ByLengthFrom(keys, n - 1)

LongestFirst(keys) ==
    IF keys = <<>> THEN <<>>
    ELSE ByLengthFrom(keys,
           CHOOSE n \in {Len(keys[i]) : i \in 1..Len(keys)} :
               \A i \in 1..Len(keys) : Len(keys[i]) <= n)

\* The loop of _replace_links: one str.replace per key, each on the text the
\* replacements before it left.
RECURSIVE ReplaceAll(_, _, _)
ReplaceAll(html, order, d) ==
    IF order = <<>> THEN html
    ELSE ReplaceAll(Replace(html, Head(order), Lookup(d, Head(order))),
                    Tail(order), d)

\* _replace_links: main_html with the keys of url_to_data_uri replaced.
_replace_links(html, d) == ReplaceAll(html, LongestFirst(Keys(d)), d)

\* f.read() of a file opened in text mode: "\r\n" and a lone "\r" are read as
\* "\n" (universal newlines).
ReadText(s) ==
    LET marked == [i \in 1..Len(s) |->
                     IF s[i] # 13 THEN s[i]
                     ELSE IF i < Len(s) /\ s[i + 1] = 10 THEN -1
                     ELSE 10]
    IN  SelectSeq(marked, LAMBDA c : c # -1)

\* ------------------------------------------------------------- the inputs

\* The largest number of parts of a document of the model.
MaxParts == 3

\* The largest number of convert() calls on one converter (SpecReuse).
MaxRuns == 2

\* The parts a document is made of, each as it stands between two boundary
\* markers.  An HTML page that refers to ab, a, cid:x and to its own location
\* p, and ends with a non-ASCII character (U+00E9).
HtmlPart ==
    T(<<"\n", "C", "o", "n", "t", "e", "n", "t", "-", "T", "y", "p", "e",
        ":", " ", "t", "e", "x", "t", "/", "h", "t", "m", "l", ";", " ",
        "c", "h", "a", "r", "s", "e", "t", "=", "u", "t", "f", "-", "8",
        "\n", "C", "o", "n", "t", "e", "n", "t", "-", "L", "o", "c", "a",
        "t", "i", "o", "n", ":", " ", "p", "\n", "\n", "a", "b", " ", "a",
        " ", "c", "i", "d", ":", "x", " ", "p", " ">>)
    \o <<233, 10>>

\* A base64 image with a Content-Location and a Content-ID.
PngPart ==
    T(<<"\n", "C", "o", "n", "t", "e", "n", "t", "-", "T", "y", "p", "e",
        ":", " ", "i", "m", "a", "g", "e", "/", "p", "n", "g", "\n", "C",
        "o", "n", "t", "e", "n", "t", "-", "T", "r", "a", "n", "s", "f",
        "e", "r", "-", "E", "n", "c", "o", "d", "i", "n", "g", ":", " ",
        "b", "a", "s", "e", "6", "4", "\n", "C", "o", "n", "t", "e", "n",
        "t", "-", "L", "o", "c", "a", "t", "i", "o", "n", ":", " ", "a",
        "b", "\n", "C", "o", "n", "t", "e", "n", "t", "-", "I", "D", ":",
        " ", "<", "x", ">", "\n", "\n", "i", "V", "B", "O", "R", "w", "0",
        "K", "G", "g", "o", "=", "\n">>)

\* A quoted-printable style sheet whose location, a, is a prefix of ab.
CssPart ==
    T(<<"\n", "C", "o", "n", "t", "e", "n", "t", "-", "T", "y", "p", "e",
        ":", " ", "t", "e", "x", "t", "/", "c", "s", "s", "\n", "C", "o",
        "n", "t", "e", "n", "t", "-", "T", "r", "a", "n", "s", "f", "e",
        "r", "-", "E", "n", "c", "o", "d", "i", "n", "g", ":", " ", "q",
        "u", "o", "t", "e", "d", "-", "p", "r", "i", "n", "t", "a", "b",
        "l", "e", "\n", "C", "o", "n", "t", "e", "n", "t", "-", "L", "o",
        "c", "a", "t", "i", "o", "n", ":", " ", "a", "\n", "\n", "b", "=",
        "3", "D", "{", "}", "\n">>)

\* A part declared base64 whose body has five data characters: it is no
\* base64 text and the decoder raises on it.
BadGifPart ==
    T(<<"\n", "C", "o", "n", "t", "e", "n", "t", "-", "T", "y", "p", "e",
        ":", " ", "i", "m", "a", "g", "e", "/", "g", "i", "f", "\n", "C",
        "o", "n", "t", "e", "n", "t", "-", "T", "r", "a", "n", "s", "f",
        "e", "r", "-", "E", "n", "c", "o", "d", "i", "n", "g", ":", " ",
        "B", "A", "S", "E", "6", "4", "\n", "C", "o", "n", "t", "e", "n",
        "t", "-", "I", "D", ":", " ", "<", "g", ">", "\n", "\n", "R", "0",
        "l", "G", "O", "\n">>)

\* A part declared base64 whose body has characters outside the alphabet: it
\* is no base64 text, and the decoder skips them.
NoisyGifPart ==
    T(<<"\n", "C", "o", "n", "t", "e", "n", "t", "-", "T", "y", "p", "e",
        ":", " ", "i", "m", "a", "g", "e", "/", "g", "i", "f", "\n", "C",
        "o", "n", "t", "e", "n", "t", "-", "T", "r", "a", "n", "s", "f",
        "e", "r", "-", "E", "n", "c", "o", "d", "i", "n", "g", ":", " ",
        "b", "a", "s", "e", "6", "4", "\n", "C", "o", "n", "t", "e", "n",
        "t", "-", "L", "o", "c", "a", "t", "i", "o", "n", ":", " ", "g",
        "\n", "\n", "*", "R", "0", "l", "G", "*", "\n">>)

\* A part with no blank line.
BareHtmlPart ==
    T(<<"\n", "C", "o", "n", "t", "e", "n", "t", "-", "T", "y", "p", "e",
        ":", " ", "t", "e", "x", "t", "/", "h", "t", "m", "l", "\n", "C",
        "o", "n", "t", "e", "n", "t", "-", "L", "o", "c", "a", "t", "i",
        "o", "n", ":", " ", "q", "\n">>)

\* What lies between two consecutive boundary markers.
EmptyPart ==
    T(<<"\n">>)

\* An HTML page in base64 whose one byte, 0xE9, is no UTF-8 text.
Latin1HtmlPart ==
    T(<<"\n", "C", "o", "n", "t", "e", "n", "t", "-", "T", "y", "p", "e", ":",
        " ", "t", "e", "x", "t", "/", "h", "t", "m", "l", "\n", "C", "o", "n",
        "t", "e", "n", "t", "-", "T", "r", "a", "n", "s", "f", "e", "r", "-",
        "E", "n", "c", "o", "d", "i", "n", "g", ":", " ", "b", "a", "s", "e",
        "6", "4", "\n", "\n", "6", "Q", "=", "=", "\n">>)

PartCatalogue ==
    <<HtmlPart, PngPart, CssPart, BadGifPart, NoisyGifPart, BareHtmlPart,
      EmptyPart, Latin1HtmlPart>>

\* The sequences of at most n parts of the catalogue.
PartSeqs(n) ==
    UNION {[1..k -> {PartCatalogue[i] : i \in 1..Len(PartCatalogue)}] : k \in 0..n}

\* The top-level headers of a document, with boundary B, and the same without
\* the boundary parameter.
Envelope ==
    T(<<"M", "I", "M", "E", "-", "V", "e", "r", "s", "i", "o", "n", ":",
        " ", "1", ".", "0", "\n", "C", "o", "n", "t", "e", "n", "t", "-",
        "T", "y", "p", "e", ":", " ", "m", "u", "l", "t", "i", "p", "a",
        "r", "t", "/", "r", "e", "l", "a", "t", "e", "d", ";", " ", "b",
        "o", "u", "n", "d", "a", "r", "y", "=", "\"", "B", "\"", "\n", "\n">>)

EnvelopeNoBoundary ==
    T(<<"M", "I", "M", "E", "-", "V", "e", "r", "s", "i", "o", "n", ":",
        " ", "1", ".", "0", "\n", "C", "o", "n", "t", "e", "n", "t", "-",
        "T", "y", "p", "e", ":", " ", "m", "u", "l", "t", "i", "p", "a",
        "r", "t", "/", "r", "e", "l", "a", "t", "e", "d", "\n", "\n">>)

Marker ==
    T(<<"-", "-", "B">>)

\* The closing marker.
Closing ==
    T(<<"-", "-", "B", "-", "-", "\n">>)

\* A document with a boundary parameter and no blank line anywhere.
NoBlankLineDoc ==
    T(<<"M", "I", "M", "E", "-", "V", "e", "r", "s", "i", "o", "n", ":",
        " ", "1", ".", "0", "\n", "C", "o", "n", "t", "e", "n", "t", "-",
        "T", "y", "p", "e", ":", " ", "m", "u", "l", "t", "i", "p", "a",
        "r", "t", "/", "r", "e", "l", "a", "t", "e", "d", ";", " ", "b",
        "o", "u", "n", "d", "a", "r", "y", "=", "\"", "B", "\"", "\n", "-",
        "-", "B", "\n", "C", "o", "n", "t", "e", "n", "t", "-", "T", "y",
        "p", "e", ":", " ", "t", "e", "x", "t", "/", "h", "t", "m", "l",
        "\n", "-", "-", "B", "-", "-", "\n">>)

\* The parts, each after a marker.
RECURSIVE Body(_)
Body(ps) == IF ps = <<>> THEN <<>> ELSE Marker \o Head(ps) \o Body(Tail(ps))

\* The text of a file as a program wrote it with CRLF line ends.
WithCRLF(s) == Replace(s, LF, CRLF)

\* The files the model converts: well-formed documents of at most MaxParts
\* parts; documents that lack the closing marker, or the boundary parameter;
\* one without a blank line; and documents with CRLF line ends.
Documents ==
    {Envelope \o Body(ps) \o Closing : ps \in PartSeqs(MaxParts)}
    \cup {Envelope \o Body(ps) : ps \in PartSeqs(MaxParts - 1)}
    \cup {EnvelopeNoBoundary \o Body(ps) \o Closing : ps \in PartSeqs(1)}
    \cup {WithCRLF(Envelope \o Body(ps) \o Closing) : ps \in PartSeqs(1)}
    \cup {NoBlankLineDoc}

\* ------------------------------------------------------- the state machine

VARIABLES
    mhtml_file,       \* the text of the file at mhtml_path
    output_file,      \* the text of the file at output_html_path, None: no file
    boundary,         \* self.boundary
    url_to_data_uri,  \* self.url_to_data_uri
    main_html,        \* self.main_html
    pc,               \* where convert() is: "idle", "loop", "returned", "raised"
    parts,            \* the parts the for loop of convert() has still to visit
    decoded,          \* the local decoded of the latest _process_part call
    log,              \* the levels of the records logged, in order
    handed,           \* history: the parts passed to _process_part in this call
    results,          \* history: per convert() call, the text written or None
    runs              \* the number of convert() calls made

vars ==
    <<mhtml_file, output_file, boundary, url_to_data_uri, main_html, pc, parts,
      decoded, log, handed, results, runs>>

\* __init__, and a file to convert.
Init ==
    /\ mhtml_file \in Documents
    /\ output_file = None
    /\ boundary = None
    /\ url_to_data_uri = <<>>
    /\ main_html = None
    /\ pc = "idle"
    /\ parts = <<>>
    /\ decoded = None
    /\ log = <<>>
    /\ handed = <<>>
    /\ results = <<>>
    /\ runs = 0

\* convert() up to its for loop: the file is read and _extract_parts either
\* raises, which ends the call, or sets the boundary and yields the parts.
Begin ==
    LET r == _extract_parts(ReadText(mhtml_file), boundary)
    IN  /\ runs' = runs + 1
        /\ handed' = <<>>
        /\ decoded' = None
        /\ boundary' = r.boundary
        /\ parts' = r.parts
        /\ pc' = IF r.error = "" THEN "loop" ELSE "raised"
        /\ results' = IF r.error = "" THEN results ELSE Append(results, None)
        /\ UNCHANGED <<mhtml_file, output_file, url_to_data_uri, main_html, log>>

\* The call converter.convert() of the script.
Convert == pc = "idle" /\ Begin

\* One turn of the for loop: _process_part on the next part.
ProcessPart ==
    /\ pc = "loop"
    /\ parts # <<>>
    /\ LET r == _process_part(Head(parts), main_html, url_to_data_uri)
       IN  /\ main_html' = r.main_html
           /\ url_to_data_uri' = r.url_to_data_uri
           /\ decoded' = r.decoded
           /\ log' = IF r.warned THEN Append(log, "WARNING") ELSE log
    /\ handed' = Append(handed, Head(parts))
    /\ parts' = Tail(parts)
    /\ UNCHANGED <<mhtml_file, output_file, boundary, pc, results, runs>>

\* convert() after the loop without the test of line 103: an empty text is
\* written when there is no main_html.
FinishWithoutCheck ==
    /\ pc = "loop"
    /\ parts = <<>>
    /\ pc' = "returned"
    /\ output_file' = IF main_html = None THEN <<>>
                      ELSE _replace_links(main_html, url_to_data_uri)
    /\ log' = Append(log, "INFO")
    /\ results' = Append(results, output_file')
    /\ UNCHANGED <<mhtml_file, boundary, url_to_data_uri, main_html, parts,
                   decoded, handed, runs>>

\* convert() after the loop: without a main_html an error is logged and nothing
\* written; otherwise the links are replaced and the result is written.
Finish ==
    /\ pc = "loop"
    /\ parts = <<>>
    /\ pc' = "returned"
    /\ IF main_html = None
       THEN /\ log' = Append(log, "ERROR")
            /\ output_file' = output_file
            /\ results' = Append(results, None)
       ELSE /\ output_file' = _replace_links(main_html, url_to_data_uri)
            /\ log' = Append(log, "INFO")
            /\ results' = Append(results, output_file')
    /\ UNCHANGED <<mhtml_file, boundary, url_to_data_uri, main_html, parts,
                   decoded, handed, runs>>

\* convert() called again on the same object, once a call has ended.
ConvertAgain ==
    /\ pc \in {"returned", "raised"}
    /\ runs < MaxRuns
    /\ Begin

Next == Convert \/ ProcessPart \/ Finish

\* The script: one converter, one convert() call.
Spec == Init /\ [][Next]_vars

NextReuse == Next \/ ConvertAgain

\* The class used as a library: convert() may be called again.
SpecReuse == Init /\ [][NextReuse]_vars

\* ---------------------------------------------------- notions of the claims

\* sub occurs in s.
Contains(s, sub) == Find(s, sub, 1) # 0

\* This step is a call of _process_part, on Head(parts).
Processing == Len(handed') = Len(handed) + 1

\* A part whose content type starts with text/html.
IsHtmlPart(part) == StartsWith(ContentTypeOf(HeadersOf(part)), TextHtml)

\* The bytes a part decodes to, its text and its data URI.
BytesOfPart(part) == _decode_body(EncodingOf(HeadersOf(part)), BodyOf(part))

TextOfPart(part) == DecodeText(BytesOfPart(part))

UriOfPart(part) == _make_data_uri(ContentTypeOf(HeadersOf(part)), BytesOfPart(part))

\* The keys a part registers as a resource.
KeysOfPart(part) == {LocationOf(HeadersOf(part)), CidOf(HeadersOf(part))} \ {None}

\* A text of white space only (the empty text is one).
AllSpace(s) == \A i \in 1..Len(s) : IsSpace(s[i])

\* The positions of the text/html parts among the parts handed over.
HtmlPartsHanded == {i \in 1..Len(handed) : IsHtmlPart(handed[i])}

\* ------------------------------------------------------------------- C1

\* C1: main_html is set once, by the first part processed whose content type
\* starts with text/html: while it is None a part that is not text/html leaves
\* it None, the first text/html part stores its decoded text and registers
\* nothing, and from then on no step changes it; a later text/html part is a
\* resource, its data URI registered under its Content-Location and cid: keys.
C1_FirstHtmlWins ==
    [][/\ main_html # None => main_html' = main_html
       /\ Processing =>
            LET p == Head(parts)
            IN  /\ (main_html = None /\ IsHtmlPart(p)) =>
                      /\ main_html' = TextOfPart(p)
                      /\ url_to_data_uri' = url_to_data_uri
                /\ (main_html = None /\ ~IsHtmlPart(p)) => main_html' = None
                /\ (main_html # None /\ IsHtmlPart(p)) =>
                      \A k \in KeysOfPart(p) :
                          /\ HasKey(url_to_data_uri', k)
                          /\ Lookup(url_to_data_uri', k) = UriOfPart(p)
      ]_vars

\* Two text/html parts were processed: main_html is the text of the first and
\* the second is registered under its location, p.
C1_Witness ==
    /\ Len(handed) = 2
    /\ HtmlPartsHanded = {1, 2}
    /\ main_html = TextOfPart(handed[1])
    /\ main_html # <<>>
    /\ HasKey(url_to_data_uri, T(<<"p">>))
    /\ Lookup(url_to_data_uri, T(<<"p">>)) = UriOfPart(handed[2])

\* ------------------------------------------------------------------- C3

\* The content has a blank line and a boundary="..." parameter before the
\* first one.
WellFormedEnvelope(content) ==
    /\ Contains(content, BlankLine)
    /\ _parse_boundary(SubSeq(content, 1, Find(content, BlankLine, 1) - 1)) # None

\* C3: an output file exists only if the document has a blank line, a boundary
\* parameter in its header block and a text/html part among the parts
\* processed; without a blank line or a boundary the call raises before any
\* part is processed, and without a text/html part it ends with an error
\* logged; in both cases nothing is written.
C3_OutputOnlyWhenWellFormed ==
    LET content == ReadText(mhtml_file)
    IN  /\ output_file # None =>
              WellFormedEnvelope(content) /\ HtmlPartsHanded # {}
        /\ (pc # "idle" /\ ~WellFormedEnvelope(content)) =>
              /\ pc = "raised"
              /\ handed = <<>>
              /\ main_html = None
              /\ url_to_data_uri = <<>>
              /\ output_file = None
        /\ (pc = "returned" /\ HtmlPartsHanded = {}) =>
              /\ output_file = None
              /\ log # <<>>
              /\ log[Len(log)] = "ERROR"

\* A document with a blank line and no boundary parameter: the call raised.
C3_Witness ==
    /\ pc = "raised"
    /\ Contains(ReadText(mhtml_file), BlankLine)
    /\ ~WellFormedEnvelope(ReadText(mhtml_file))
    /\ output_file = None

\* ------------------------------------------------------------------- C8

\* The parts, each after a marker.
RECURSIVE MarkedUp(_, _)
MarkedUp(ps, marker) ==
    IF ps = <<>> THEN <<>> ELSE marker \o Head(ps) \o MarkedUp(Tail(ps), marker)

\* The parts of the for loop, visited and to visit, are what lies between the
\* markers of the content: the content is a preamble, then each part after a
\* marker, then a last marker and an epilogue, and no marker lies within any
\* of these; there are no parts when the content has fewer than two markers.
SegmentsBetweenMarkers ==
    LET content == ReadText(mhtml_file)
        marker == Dashes \o boundary
        all == handed \o parts
        first == Find(content, marker, 1)
        upto == SubSeq(content, 1, first - 1) \o MarkedUp(all, marker) \o marker
    IN  IF all = <<>>
        THEN first = 0 \/ Find(content, marker, first + Len(marker)) = 0
        ELSE /\ first # 0
             /\ StartsWith(content, upto)
             /\ ~Contains(SubSeq(content, Len(upto) + 1, Len(content)), marker)
             /\ \A i \in 1..Len(all) : ~Contains(all[i], marker)

\* C8: the parts handed to _process_part are the segments between the first
\* and the last "--" + boundary marker, each once and in document order (the
\* preamble and the epilogue are not among them), and a part of white space
\* only changes neither main_html nor url_to_data_uri.
C8_SegmentsBetweenMarkers ==
    /\ [](pc \in {"loop", "returned"} => SegmentsBetweenMarkers)
    /\ [][Processing =>
            /\ handed' = Append(handed, Head(parts))
            /\ parts' = Tail(parts)
            /\ AllSpace(Head(parts)) =>
                 /\ main_html' = main_html
                 /\ url_to_data_uri' = url_to_data_uri
                 /\ log' = log
         ]_vars

\* A run that ended after three parts, one of white space only, with a
\* main_html.
C8_Witness ==
    /\ pc = "returned"
    /\ Len(handed) = 3
    /\ \E i \in 1..Len(handed) : AllSpace(handed[i])
    /\ main_html # None
    /\ url_to_data_uri # <<>>

\* ------------------------------------------------------------------- C4

\* A base64 text as RFC 4648 and MIME have it: line ends and blanks aside,
\* characters of the alphabet in groups of four, the last group ending with at
\* most two "=".
IsBase64Text(s) ==
    LET t == SelectSeq(s, LAMBDA c : c \notin {9, 10, 13, 32})
        n == Len(t)
        pad == IF n >= 2 /\ t[n] = 61 /\ t[n - 1] = 61 THEN 2
               ELSE IF n >= 1 /\ t[n] = 61 THEN 1
               ELSE 0
    IN  /\ n % 4 = 0
        /\ \A i \in 1..(n - pad) : B64Value(t[i]) # 64

\* A part that is not skipped and declares Content-Transfer-Encoding: base64.
DeclaresBase64(part) ==
    Stripped(part) # <<>> /\ EncodingOf(HeadersOf(part)) = Base64Name

\* The part is classified or registered with these bytes: they are the text of
\* main_html when it becomes that, and the payload of its data URI otherwise.
HandledWith(part, bytes) ==
    IF IsHtmlPart(part) /\ main_html = None
    THEN main_html' = DecodeText(bytes)
    ELSE \A k \in KeysOfPart(part) :
             /\ HasKey(url_to_data_uri', k)
             /\ Lookup(url_to_data_uri', k)
                  = _make_data_uri(ContentTypeOf(HeadersOf(part)), bytes)

\* C4 as claimed: a part that declares base64 and whose body is no base64
\* text makes _decode_body log a warning and answer the UTF-8 bytes of the
\* body, and the loop goes on.
C4_Original ==
    [][(Processing /\ DeclaresBase64(Head(parts))
          /\ ~IsBase64Text(BodyOf(Head(parts)))) =>
            /\ decoded' = UTF8Encode(BodyOf(Head(parts)))
            /\ log' = Append(log, "WARNING")
            /\ pc' = "loop"
      ]_vars

\* C4 as amended: a part that declares base64 and on whose body the decoder
\* raises makes _decode_body log a warning and answer the UTF-8 bytes of the
\* body; on any other body it answers what the decoder answers and logs
\* nothing.  Either way the part is classified or registered with those
\* bytes, and the loop goes on with the parts after it.
C4_DecodeFallback ==
    [][(Processing /\ DeclaresBase64(Head(parts))) =>
            LET body == BodyOf(Head(parts))
            IN  /\ IF B64Decode(body) = None
                   THEN /\ decoded' = UTF8Encode(body)
                        /\ log' = Append(log, "WARNING")
                   ELSE /\ decoded' = B64Decode(body)
                        /\ log' = log
                /\ HandledWith(Head(parts), decoded')
                /\ pc' = "loop"
                /\ parts' = Tail(parts)
      ]_vars

\* The part with the body R0lGO was processed: a warning is the latest record
\* logged, decoded is the body as bytes, the part is registered under cid:g
\* and there are parts left to process.
C4_Witness ==
    /\ handed # <<>>
    /\ DeclaresBase64(handed[Len(handed)])
    /\ B64Decode(BodyOf(handed[Len(handed)])) = None
    /\ decoded = UTF8Encode(T(<<"R", "0", "l", "G", "O">>))
    /\ log # <<>>
    /\ log[Len(log)] = "WARNING"
    /\ HasKey(url_to_data_uri, T(<<"c", "i", "d", ":", "g">>))
    /\ parts # <<>>

\* ------------------------------------------------------------------- C5

\* C5: when a run that wrote its output processed exactly one text/html part,
\* and no key of another part occurs in the text of that part, the output is
\* that text; for a part in no transfer encoding, it is the body of the part
\* as it stands in the document.
C5_RoundTrip ==
    (pc = "returned" /\ output_file # None /\ Cardinality(HtmlPartsHanded) = 1) =>
        LET i == CHOOSE j \in HtmlPartsHanded : TRUE
            others == UNION {KeysOfPart(handed[j]) : j \in (1..Len(handed)) \ {i}}
        IN  (\A k \in others : ~Contains(TextOfPart(handed[i]), k)) =>
              /\ output_file = TextOfPart(handed[i])
              /\ EncodingOf(HeadersOf(handed[i]))
                     \notin {Base64Name, QuotedPrintableName}
                   => output_file = BodyOf(handed[i])

\* A run wrote the body of its only text/html part, non-ASCII character and
\* all, with resources registered that the text does not refer to.
C5_Witness ==
    /\ pc = "returned"
    /\ output_file # None
    /\ Cardinality(HtmlPartsHanded) = 1
    /\ url_to_data_uri # <<>>
    /\ \A j \in 1..Len(url_to_data_uri) :
           ~Contains(main_html, url_to_data_uri[j].key)
    /\ \E i \in HtmlPartsHanded : output_file = BodyOf(handed[i])
    /\ \E c \in 1..Len(output_file) : output_file[c] = 233

\* ------------------------------------------------------------------- C9

\* A part that is not skipped and has no blank line.
NoSeparator(part) ==
    Stripped(part) # <<>> /\ ~Contains(Stripped(part), BlankLine)

\* C9 as claimed: a part with no blank line has no headers and is all body:
\* it neither becomes main_html nor registers anything, and the bytes decoded
\* are those of the whole part.
C9_Original ==
    [][(Processing /\ NoSeparator(Head(parts))) =>
            /\ decoded' = UTF8Encode(Stripped(Head(parts)))
            /\ main_html' = main_html
            /\ url_to_data_uri' = url_to_data_uri
      ]_vars

\* The entries of d and then, for each of the keys, one with this value.
WithKeys(d, keys, value) ==
    /\ \A k \in keys : HasKey(url_to_data_uri', k) /\ Lookup(url_to_data_uri', k) = value
    /\ \A j \in 1..Len(url_to_data_uri') :
           \/ url_to_data_uri'[j].key \in keys
           \/ /\ HasKey(d, url_to_data_uri'[j].key)
              /\ url_to_data_uri'[j].val = Lookup(d, url_to_data_uri'[j].key)
    /\ \A j \in 1..Len(d) : HasKey(url_to_data_uri', d[j].key)

\* C9 as amended: a part with no blank line is all header block and its body
\* is empty: the bytes decoded are none, the four headers are looked up in
\* the whole text of the part, and the part becomes an empty main_html when
\* its content type starts with text/html and none is set, and is otherwise
\* registered, under the location and the cid: key found in it, as a data URI
\* with an empty payload.
C9_WholePartIsHeaders ==
    [][(Processing /\ NoSeparator(Head(parts))) =>
            LET whole == Stripped(Head(parts))
                type == ContentTypeOf(whole)
            IN  /\ decoded' = <<>>
                /\ log' = log
                /\ IF StartsWith(type, TextHtml) /\ main_html = None
                   THEN /\ main_html' = <<>>
                        /\ url_to_data_uri' = url_to_data_uri
                   ELSE /\ main_html' = main_html
                        /\ WithKeys(url_to_data_uri,
                                    {LocationOf(whole), CidOf(whole)} \ {None},
                                    DataScheme \o type \o Base64Mark)
      ]_vars

\* A part with no blank line became an empty main_html.
C9_Witness ==
    /\ handed # <<>>
    /\ NoSeparator(handed[Len(handed)])
    /\ main_html = <<>>
    /\ decoded = <<>>
    /\ url_to_data_uri = <<>>

\* ------------------------------------------------------------------ C10

\* A text as its pieces in order: pieces of the original text, and the data
\* URIs put in their place (put).  The pieces of an original piece once the
\* occurrences of key in it are replaced by uri:
RECURSIVE CutAt(_, _, _)
CutAt(text, key, uri) ==
    LET i == Find(text, key, 1)
    IN  IF key = <<>> \/ i = 0 THEN <<[text |-> text, put |-> FALSE]>>
        ELSE <<[text |-> SubSeq(text, 1, i - 1), put |-> FALSE],
               [text |-> uri, put |-> TRUE]>>
             \o CutAt(SubSeq(text, i + Len(key), Len(text)), key, uri)

\* One key replaced in the original pieces only.
RECURSIVE CutAll(_, _, _)
CutAll(pieces, key, uri) ==
    IF pieces = <<>> THEN <<>>
    ELSE (IF Head(pieces).put THEN <<Head(pieces)>>
          ELSE CutAt(Head(pieces).text, key, uri))
         \o CutAll(Tail(pieces), key, uri)

RECURSIVE CutInOrder(_, _, _)
CutInOrder(pieces, order, d) ==
    IF order = <<>> THEN pieces
    ELSE CutInOrder(CutAll(pieces, Head(order), Lookup(d, Head(order))),
                    Tail(order), d)

RECURSIVE Flatten(_)
Flatten(pieces) ==
    IF pieces = <<>> THEN <<>> ELSE Head(pieces).text \o Flatten(Tail(pieces))

\* html with the occurrences of the keys in the original text replaced, the
\* longest key first, and nothing replaced within a data URI put in.
OriginalOnly(html, d) ==
    Flatten(CutInOrder(<<[text |-> html, put |-> FALSE]>>, LongestFirst(Keys(d)), d))

\* C10 as claimed: the text written is main_html with the occurrences of the
\* keys in the original text replaced by their data URIs and all else
\* untouched: no key is matched within a data URI an earlier replacement put in.
C10_Original ==
    (pc = "returned" /\ output_file # None) =>
        output_file = OriginalOnly(main_html, url_to_data_uri)

\* ------------------------------------------------------------------- C2

ProperPrefix(short, long) ==
    Len(short) < Len(long) /\ SubSeq(long, 1, Len(short)) = short

\* C2 as claimed: when a key S is a proper prefix of a key L and L occurs in
\* main_html, the text written has the data URI of L in it, and nowhere the
\* data URI of S followed by the rest of L.
C2_Original ==
    (pc = "returned" /\ output_file # None) =>
        \A i, j \in 1..Len(url_to_data_uri) :
            LET S == url_to_data_uri[i].key
                L == url_to_data_uri[j].key
            IN  (ProperPrefix(S, L) /\ Contains(main_html, L)) =>
                  /\ Contains(output_file, url_to_data_uri[j].val)
                  /\ ~Contains(output_file,
                               url_to_data_uri[i].val
                                 \o SubSeq(L, Len(S) + 1, Len(L)))

\* ------------------------------------------------------------------- C6

\* The number of occurrences of a non-empty key in a text.
Occurrences(text, key) == Len(Split(text, key)) - 1

\* The part that became main_html in this call: the first text/html part.
PrimaryIndex ==
    IF HtmlPartsHanded = {} THEN 0
    ELSE CHOOSE i \in HtmlPartsHanded : \A j \in HtmlPartsHanded : i <= j

\* C6 as claimed: a part that is not the primary one and has a
\* Content-Location U and a Content-ID <I> registers one data URI under U and
\* under cid:I, a part with one of the two headers registers that key only,
\* and the text written has that data URI for every occurrence of U and of
\* cid:I in main_html.
C6_Original ==
    /\ [][(Processing /\ Stripped(Head(parts)) # <<>>
             /\ ~(IsHtmlPart(Head(parts)) /\ main_html = None)) =>
               /\ \A k \in KeysOfPart(Head(parts)) :
                      /\ HasKey(url_to_data_uri', k)
                      /\ Lookup(url_to_data_uri', k) = UriOfPart(Head(parts))
               /\ \A j \in 1..Len(url_to_data_uri') :
                      \/ url_to_data_uri'[j].key \in KeysOfPart(Head(parts))
                      \/ HasKey(url_to_data_uri, url_to_data_uri'[j].key)
         ]_vars
    /\ [](pc = "returned" /\ output_file # None =>
            \A i \in (1..Len(handed)) \ {PrimaryIndex} :
                LET location == LocationOf(HeadersOf(handed[i]))
                    cid == CidOf(HeadersOf(handed[i]))
                IN  (location # None /\ cid # None) =>
                      Occurrences(output_file, Lookup(url_to_data_uri, location))
                        >= Occurrences(main_html, location)
                             + Occurrences(main_html, cid))

\* ------------------------------------------------------------------- C7

\* C7 as claimed: a second convert() call on the same object, on the same
\* document, ends as the first did: it writes the same text, or nothing.
C7_Original == Len(results) = 2 => results[2] = results[1]

=============================================================================
